---- MODULE Spec2Model ----
(***************************************************************************)
(* Steam password rotation: the rotation history (scheduler.py,            *)
(* PasswordHistory), the rotation engine (scheduler.py,                    *)
(* SteamPasswordScheduler) and the session client it drives               *)
(* (steam_client.py).                                                      *)
(*                                                                         *)
(* Time is a clock of integer units, UnitsPerHour of them to the hour.     *)
(* A file is a record [kind, data]: kind "missing", "unreadable",          *)
(* "corrupt" (not JSON) or "list" (a JSON list, data its entries).         *)
(***************************************************************************)
EXTENDS Integers, Sequences, FiniteSets, TLC

\* ------------------------------------------------------------- bounds
MaxTime == 1
UnitsPerHour == 1
MaxRetention == 2
MaxAdds == 3
MaxThreads == 2
MaxTriggers == 2
MaxWorkers == 1
MaxLiveWorkers == 2

\* ------------------------------------------------- program constants
DefaultMaxRecords == 10
BreakerWindowHours == 1
BreakerThreshold == 3
StatusWindowHours == 24

\* ---------------------------------------------------------- records
None == "None"

Fields ==
  {"timestamp", "old_password_hash", "new_password_hash", "success", "error_message"}

RequiredFields == Fields \ {"error_message"}

\* datetime.isoformat(): the clock value as text
isoformat(t) == [fmt |-> "iso", t |-> t]

\* a timestamp text that datetime.fromisoformat() rejects with ValueError
JunkTimestamp == [fmt |-> "junk", t |-> 0]

\* datetime.fromisoformat() succeeds
IsIso(ts) == ts.fmt = "iso"

fromisoformat(ts) == ts.t

PasswordChangeRecord(ts, oldh, newh, ok, err) ==
  [timestamp |-> ts, old_password_hash |-> oldh, new_password_hash |-> newh,
   success |-> ok, error_message |-> err]

\* asdict(record): a dict with the five fields
to_dict(r) == [k \in Fields |-> r[k]]

\* cls(**data) raises TypeError: an unknown key, or a required one missing
Undecodable(d) ==
  \/ ~(DOMAIN d \subseteq Fields)
  \/ ~(RequiredFields \subseteq DOMAIN d)

\* cls(**data): error_message defaults to None
from_dict(d) ==
  [k \in Fields |-> IF k \in DOMAIN d THEN d[k] ELSE None]

\* ------------------------------------------------------------ files
MissingFile == [kind |-> "missing", data |-> <<>>]
UnreadableFile == [kind |-> "unreadable", data |-> <<>>]
CorruptFile == [kind |-> "corrupt", data |-> <<>>]
ListFile(entries) == [kind |-> "list", data |-> entries]

WriteOutcomes == {"ok", "open_error", "write_error"}

\* open(path, 'w') then json.dump: open_error leaves the file as it was,
\* write_error leaves it truncated or partly written
WriteFile(file, content, outcome) ==
  CASE outcome = "ok" -> content
    [] outcome = "open_error" -> file
    [] OTHER -> CorruptFile

\* ---------------------------------------------------- PasswordHistory
\* Python s[start:] for any integer start
SliceFrom(s, start) ==
  LET n == Len(s)
      lo == IF start < 0 THEN (IF n + start < 0 THEN 0 ELSE n + start)
                         ELSE (IF start > n THEN n ELSE start)
  IN  SubSeq(s, lo + 1, n)

\* save_history, lines 65-66: self.records = self.records[-self.max_records:]
TrimRecords(recs, n) ==
  IF Len(recs) > n THEN SliceFrom(recs, 0 - n) ELSE recs

\* save_history with the data to write built before the list is trimmed
save_history_untrimmed(recs, file, n, outcome) ==
  LET data == [i \in 1..Len(recs) |-> to_dict(recs[i])]
  IN  [records |-> TrimRecords(recs, n), file |-> WriteFile(file, ListFile(data), outcome)]

\* save_history: the trimmed list and the file after the write
save_history(recs, file, n, outcome) ==
  LET kept == TrimRecords(recs, n)
      data == [i \in 1..Len(kept) |-> to_dict(kept[i])]
  IN  [records |-> kept, file |-> WriteFile(file, ListFile(data), outcome)]

add_record(recs, file, n, r, outcome) ==
  save_history(Append(recs, r), file, n, outcome)

RECURSIVE DecodableOf(_)
DecodableOf(entries) ==
  IF entries = <<>> THEN <<>>
  ELSE IF Undecodable(Head(entries)) THEN DecodableOf(Tail(entries))
       ELSE <<from_dict(Head(entries))>> \o DecodableOf(Tail(entries))

\* load_history that skips the entries it cannot decode
load_history_skipping(file) ==
  IF file.kind = "list" THEN DecodableOf(file.data) ELSE <<>>

\* load_history on a new object (records = []): any exception leaves []
load_history(file) ==
  IF file.kind = "list" /\ \A i \in 1..Len(file.data) : ~Undecodable(file.data[i])
  THEN [i \in 1..Len(file.data) |-> from_dict(file.data[i])]
  ELSE <<>>

\* get_last_change searching from the oldest record
get_last_change_oldest(recs) ==
  IF \E i \in 1..Len(recs) : recs[i].success
  THEN LET i == CHOOSE i \in 1..Len(recs) :
                  recs[i].success /\ \A j \in 1..(i-1) : ~recs[j].success
       IN  recs[i]
  ELSE None

\* lines 79-84: the first success record of reversed(records), or None
get_last_change(recs) ==
  IF \E i \in 1..Len(recs) : recs[i].success
  THEN LET i == CHOOSE i \in 1..Len(recs) :
                  recs[i].success /\ \A j \in (i+1)..Len(recs) : ~recs[j].success
       IN  recs[i]
  ELSE None

\* the failures of all time, whatever the window
FailedIndices_all_time(recs, now, since_hours) ==
  {i \in 1..Len(recs) : IsIso(recs[i].timestamp) /\ ~recs[i].success}

\* the indices get_failed_attempts keeps, in history order
FailedIndices(recs, now, since_hours) ==
  {i \in 1..Len(recs) :
     /\ IsIso(recs[i].timestamp)
     /\ fromisoformat(recs[i].timestamp) > now - since_hours * UnitsPerHour
     /\ ~recs[i].success}

RECURSIVE SelectIdx(_, _, _)
SelectIdx(recs, idx, i) ==
  IF i > Len(recs) THEN <<>>
  ELSE IF i \in idx THEN <<recs[i]>> \o SelectIdx(recs, idx, i + 1)
       ELSE SelectIdx(recs, idx, i + 1)

get_failed_attempts(recs, now, since_hours) ==
  SelectIdx(recs, FailedIndices(recs, now, since_hours), 1)

\* ------------------------------------------------------------ state
VARIABLES
  records,          \* PasswordHistory.records
  histFile,         \* password_history.json
  max_records,      \* PasswordHistory.max_records
  hlog,             \* what the PasswordHistory object loaded, what add_record
                    \* was given since, and the last operation on it
  config_password,  \* config['steam_account']['password'], the dict shared by
                    \* the scheduler and the password changer
  cfgFile,          \* config.json
  password_length,  \* config['password_change']['password_length']
  notify_cfg,       \* config['notifications']
  is_running,       \* SteamPasswordScheduler.is_running
  workers,          \* live scheduler_worker threads
  loop,             \* SteamPasswordScheduler.loop: NoLoop or a loop id
  loopState,        \* per loop id: "none", "idle", "running", "closed"
  job,              \* per job thread: position and locals of wrapper() and
                    \* of the change_password_job coroutine it runs; kind is
                    \* what triggered the thread, kept until the breaker decided
  last,             \* how the most recently ended job thread ended (and, of
                    \* a skipped cycle, what had triggered it)
  triggers,         \* triggers issued so far
  now,              \* the wall clock
  serverPassword,   \* the password the account has on the server
  auth,             \* the SteamAuthenticator: its shared_secret and its last call
  client,           \* one SteamPasswordChanger.change_password call: the
                    \* SteamWebClient it made, the requests sent, the replies
  generator         \* one PasswordGenerator.generate_password call: its
                    \* arguments and what it returned or raised

histVars == <<records, histFile, max_records, hlog>>
cfgVars == <<config_password, cfgFile, password_length, notify_cfg>>
schedVars == <<is_running, workers, loop, loopState>>
changerVars == <<auth, client, generator>>
vars == <<histVars, cfgVars, schedVars, job, last, triggers, now, serverPassword, changerVars>>

Threads == 1..MaxThreads
NoLoop == 0

OldPassword == "p0"
NewPasswords == {"pA", "pB"}

\* a str value
Text(s) == [kind |-> "text", of |-> s]

\* hashlib.sha256(password.encode()).hexdigest()[:16]
hash_password(p) == [kind |-> "sha256", of |-> p]

ConfigFile(p) == [kind |-> "config", data |-> p]

\* the password a restart would load from config.json
PersistedPassword(file) == IF file.kind = "config" THEN file.data ELSE None

UnknownError == "Unknown error"

\* send_notification behind the notify_on_* test of its caller
Emits(flag) == notify_cfg.enable_notifications /\ notify_cfg[flag]

IdleJob ==
  [pc |-> "idle", kind |-> "none", loop |-> NoLoop,
   new_password |-> None, old_password |-> None, cur_password |-> None,
   success |-> FALSE, data |-> <<>>, appended |-> <<>>, record |-> <<>>, silent |-> FALSE]

NoneEnded == [kind |-> "none", outcome |-> "none", notified |-> "none"]

\* the coroutine of thread t has started and not yet returned
InFlight(t) ==
  job[t].pc \in {"rsa", "login", "transfer", "form", "submit", "returned", "add_record",
                 "write_history", "save_config"}

Set(t, fields) == job' = [job EXCEPT ![t] = fields @@ @]

\* the thread ends; run_until_complete, if entered, gives the loop back
End(t, outcome, notified) ==
  /\ job' = [job EXCEPT ![t] = IdleJob]
  /\ last' = [kind |-> IF outcome = "skipped" THEN job[t].kind ELSE "none",
              outcome |-> outcome, notified |-> notified]

\* run_until_complete never giving the loop back
Release_stuck(t) == UNCHANGED loopState

\* run_until_complete returns, line 282: the loop is no longer running
Release(t) == loopState' = [loopState EXCEPT ![job[t].loop] = "idle"]

\* ------------------------------------------------------- scheduler
\* start(), lines 322-339: nothing on a running engine; else
\* schedule_password_changes, is_running, a new worker thread (the model
\* holds at most bound worker threads that have not ended)
StartUpTo(bound) ==
  /\ ~is_running
  /\ workers < bound
  /\ is_running' = TRUE
  /\ workers' = workers + 1
  /\ UNCHANGED <<histVars, cfgVars, changerVars, loop, loopState, job, last, triggers, now, serverPassword>>

Start == StartUpTo(MaxWorkers)

\* loop.close() of stop(), lines 354-355, raises RuntimeError: the loop is
\* running
CloseRaises(state, l) == l # NoLoop /\ state[l] = "running"

\* loop.close() of stop(), lines 354-355: a running loop refuses to close
CloseLoop(state, l) ==
  IF l # NoLoop /\ state[l] = "idle" THEN [state EXCEPT ![l] = "closed"] ELSE state

\* stop(): the worker is joined for 5 s, then the loop is closed
Stop(joined) ==
  /\ is_running
  /\ is_running' = FALSE
  /\ workers' = IF joined THEN 0 ELSE workers
  /\ loopState' = CloseLoop(loopState, loop)
  /\ UNCHANGED <<histVars, cfgVars, changerVars, loop, job, last, triggers, now, serverPassword>>

\* scheduler_worker leaves its while loop
WorkerExit ==
  /\ workers > 0
  /\ ~is_running
  /\ workers' = workers - 1
  /\ UNCHANGED <<histVars, cfgVars, changerVars, is_running, loop, loopState, job, last, triggers, now,
                 serverPassword>>

\* run_async_job: a new thread running wrapper()
Spawn(kind) ==
  /\ triggers < MaxTriggers
  /\ \E t \in Threads :
       /\ job[t].pc = "idle"
       /\ \A u \in Threads : job[u].pc = "idle" => t <= u
       /\ Set(t, [pc |-> "wrapper", kind |-> kind])
  /\ triggers' = triggers + 1
  /\ UNCHANGED <<histVars, cfgVars, changerVars, schedVars, last, now, serverPassword>>

\* scheduler_worker, lines 310-312: a live worker finds is_running set and
\* schedule.run_pending() fires the job
TimerTick == is_running /\ workers > 0 /\ Spawn("timer")

force_password_change == Spawn("forced")

Tick ==
  /\ now < MaxTime
  /\ now' = now + 1
  /\ UNCHANGED <<histVars, cfgVars, changerVars, schedVars, job, last, triggers, serverPassword>>

\* -------------------------------- change_password_job, lines 184-259
\* the record with the result of change_password ignored
OutcomeRecord_flag_lost(j, clock, success) ==
  PasswordChangeRecord(isoformat(clock), hash_password(j.old_password),
                       hash_password(j.new_password), TRUE, None)

\* lines 217-223
OutcomeRecord(j, clock, success) ==
  PasswordChangeRecord(isoformat(clock), hash_password(j.old_password),
                       hash_password(j.new_password), success,
                       IF success THEN None ELSE UnknownError)

\* lines 248-254, the except branch
ExceptionRecord(clock, e) ==
  PasswordChangeRecord(isoformat(clock), Text(""), Text(""), FALSE, e)

\* add_record up to the open() of save_history, lines 76 and 65-68: the
\* record is appended, the list trimmed, the data to write built
AppendRecord(t, r, fields) ==
  LET kept == TrimRecords(Append(records, r), max_records)
  IN  /\ records' = kept
      /\ Set(t, [pc |-> "write_history", appended |-> Append(job[t].appended, r),
                 data |-> [i \in 1..Len(kept) |-> to_dict(kept[i])]] @@ fields)

\* a step of the session fails: change_password returns False (the client
\* session is closed on the way out) and the job records the failure
ReturnFalse(t) ==
  /\ AppendRecord(t, OutcomeRecord(job[t], now, FALSE), [success |-> FALSE])
  /\ UNCHANGED <<histFile, max_records, hlog, cfgVars, changerVars, schedVars, last, triggers, now,
                 serverPassword>>

Proceed(t, pc) ==
  /\ Set(t, [pc |-> pc])
  /\ UNCHANGED <<histVars, cfgVars, changerVars, schedVars, last, triggers, now, serverPassword>>

\* ----------------------------------------------- wrapper(), lines 276-284
WrapperCheckLoop(t) ==
  /\ job[t].pc = "wrapper"
  /\ Proceed(t, IF loop = NoLoop THEN "new_loop" ELSE "run")

WrapperNewLoop(t) ==
  /\ job[t].pc = "new_loop"
  /\ loop' = t
  /\ loopState' = [loopState EXCEPT ![t] = "idle"]
  /\ Set(t, [pc |-> "run"])
  /\ UNCHANGED <<histVars, cfgVars, changerVars, is_running, workers, last, triggers, now, serverPassword>>

\* run_until_complete raises RuntimeError on a closed or a running loop
CanRun(l) == loopState[l] = "idle"

\* the breaker opening one failure late
BreakerOpen_late(recs, clock) ==
  Len(get_failed_attempts(recs, clock, BreakerWindowHours)) > BreakerThreshold

\* lines 190-191
BreakerOpen(recs, clock) ==
  Len(get_failed_attempts(recs, clock, BreakerWindowHours)) >= BreakerThreshold

\* generate_password raises ValueError, password_generator.py line 54
GenerateRaises(length) == length < 4

\* self.loop.run_until_complete(job_func()), line 282, and the coroutine up
\* to its first request: the breaker, the new password, the old one, the
\* client session (lines 186-211, 333-343)
RunJob(t) ==
  /\ job[t].pc = "run"
  /\ IF ~CanRun(loop)
     THEN /\ End(t, "not_run", "none")
          /\ UNCHANGED <<histVars, loopState>>
     ELSE IF BreakerOpen(records, now)
     THEN /\ End(t, "skipped", "none")
          /\ UNCHANGED <<histVars, loopState>>
     ELSE /\ loopState' = [loopState EXCEPT ![loop] = "running"]
          /\ UNCHANGED <<histFile, max_records, hlog, last>>
          /\ IF GenerateRaises(password_length)
             THEN AppendRecord(t, ExceptionRecord(now, "ValueError"),
                               [loop |-> loop, kind |-> "none", success |-> FALSE])
             ELSE /\ \E p \in NewPasswords :
                       Set(t, [pc |-> "rsa", loop |-> loop, kind |-> "none",
                               new_password |-> p, old_password |-> config_password])
                  /\ UNCHANGED records
  /\ UNCHANGED <<cfgVars, changerVars, is_running, workers, loop, triggers, now, serverPassword>>

\* _get_rsa_key, lines 230-250
GetRsaKey(t, outcome) ==
  /\ job[t].pc = "rsa"
  /\ IF outcome = "ok" THEN Proceed(t, "login") ELSE ReturnFalse(t)

\* login, lines 141-165, and line 178 when no transfer url came back
DoLogin(t, outcome) ==
  /\ job[t].pc = "login"
  /\ outcome \in {"complete_transfer", "complete_no_transfer"} =>
       job[t].old_password = serverPassword
  /\ IF outcome = "complete_transfer" THEN Proceed(t, "transfer") ELSE ReturnFalse(t)

\* _extract_session_data, lines 276-294; then line 178 and the arguments
\* of client.change_password, lines 350-353
ExtractSession(t, outcome) ==
  /\ job[t].pc = "transfer"
  /\ IF outcome = "sessionid"
     THEN /\ Set(t, [pc |-> "form", cur_password |-> config_password])
          /\ UNCHANGED <<histVars, cfgVars, changerVars, schedVars, last, triggers, now, serverPassword>>
     ELSE ReturnFalse(t)

\* client.change_password, lines 186-197
GetForm(t, outcome) ==
  /\ job[t].pc = "form"
  /\ IF outcome = "token" THEN Proceed(t, "submit") ELSE ReturnFalse(t)

\* client.change_password, lines 208-228, lines 355-359 of the changer, and
\* the job's record, lines 217-225
SubmitChange(t, outcome) ==
  /\ job[t].pc = "submit"
  /\ outcome \in {"success", "response_lost"} => job[t].cur_password = serverPassword
  /\ serverPassword' =
       IF outcome \in {"success", "response_lost"} THEN job[t].new_password
       ELSE serverPassword
  /\ config_password' = IF outcome = "success" THEN job[t].new_password ELSE config_password
  /\ AppendRecord(t, OutcomeRecord(job[t], now, outcome = "success"),
                  [success |-> (outcome = "success")])
  /\ UNCHANGED <<histFile, max_records, hlog, cfgFile, password_length, notify_cfg, changerVars,
                 schedVars, last, triggers, now>>

\* a failed write of the history raising out of add_record
WriteHistory_raising(t, outcome) ==
  /\ job[t].pc = "write_history"
  /\ histFile' = WriteFile(histFile, ListFile(job[t].data), outcome)
  /\ IF job[t].success /\ outcome = "ok"
     THEN /\ config_password' = job[t].new_password
          /\ Set(t, [pc |-> "save_config"])
          /\ UNCHANGED <<loopState, last>>
     ELSE /\ End(t, "failed", IF Emits("notify_on_error") THEN "error" ELSE "none")
          /\ Release(t)
          /\ UNCHANGED config_password
  /\ UNCHANGED <<records, max_records, hlog, cfgFile, password_length, notify_cfg, changerVars,
                 is_running, workers, loop, triggers, now, serverPassword>>

\* save_history lines 69-72, then line 229, or lines 237-242 / 257-259
WriteHistory(t, outcome) ==
  /\ job[t].pc = "write_history"
  /\ histFile' = WriteFile(histFile, ListFile(job[t].data), outcome)
  /\ IF job[t].success
     THEN /\ config_password' = job[t].new_password
          /\ Set(t, [pc |-> "save_config"])
          /\ UNCHANGED <<loopState, last>>
     ELSE /\ End(t, "failed", IF Emits("notify_on_error") THEN "error" ELSE "none")
          /\ Release(t)
          /\ UNCHANGED config_password
  /\ UNCHANGED <<records, max_records, hlog, cfgFile, password_length, notify_cfg, changerVars,
                 is_running, workers, loop, triggers, now, serverPassword>>

\* save_config, lines 130-137
save_config(file, password, outcome) == WriteFile(file, ConfigFile(password), outcome)

\* line 230, then lines 232-236
SaveConfig(t, outcome) ==
  /\ job[t].pc = "save_config"
  /\ cfgFile' = save_config(cfgFile, config_password, outcome)
  /\ End(t, "success", IF Emits("notify_on_success") THEN "success" ELSE "none")
  /\ Release(t)
  /\ UNCHANGED <<histVars, config_password, password_length, notify_cfg, changerVars,
                 is_running, workers, loop, triggers, now, serverPassword>>

\* the log of a PasswordHistory object just constructed: what it loaded, the
\* records add_record was given, the last operation with the outcome of the
\* last write and the result of the last query, the add_record calls so far,
\* and the records of the last save that was written; writing holds the data
\* of a save whose file is open, status what get_status returned last, seen
\* the records another process loaded last (each in a tuple, empty for none)
NewLog(loaded, adds) ==
  [loaded |-> loaded, added |-> <<>>, op |-> "init", outcome |-> "ok", adds |-> adds,
   window |-> 0, failed |-> <<>>, last_change |-> None, has_saved |-> FALSE, saved |-> <<>>,
   writing |-> <<>>, status |-> <<>>, seen |-> <<>>]

\* the authenticator and the changer of a scheduler, no call made
ChangerAtRest ==
  /\ auth = [secret |-> [kind |-> "text", junk |-> FALSE, padded |-> TRUE, key |-> <<1, 2>>],
             op |-> "new", timestamp |-> 0, tag |-> "none",
             result |-> [kind |-> "return", value |-> <<>>]]
  /\ client = [pc |-> "idle", session |-> "none", cookie |-> FALSE, session_id |-> None,
               requests |-> <<>>, replies |-> <<>>, login |-> None, result |-> None]
  /\ generator = [op |-> "new", result |-> [kind |-> "none"],
                  args |-> [length |-> 16, use_lowercase |-> TRUE, use_uppercase |-> TRUE,
                            use_numbers |-> TRUE, use_special_chars |-> TRUE,
                            exclude_ambiguous |-> TRUE, exclude_chars |-> {}]]

\* ------------------------------------------------------ the engine
\* a failure record of an earlier run of the program
EarlierFailure(clock) ==
  PasswordChangeRecord(isoformat(clock), hash_password(OldPassword),
                       hash_password("pA"), FALSE, UnknownError)

\* password_history.json as earlier runs can have left it
EngineHistoryFiles ==
  {MissingFile,
   ListFile(<<to_dict(EarlierFailure(0)), to_dict(EarlierFailure(0))>>)}

DefaultNotifications ==
  [enable_notifications |-> TRUE, notify_on_success |-> TRUE, notify_on_error |-> TRUE]

\* config.json as the user can have written it: [password_length, notifications]
EngineConfigs ==
  {[password_length |-> 16, notifications |-> DefaultNotifications],
   [password_length |-> 3, notifications |-> DefaultNotifications],
   [password_length |-> 16,
    notifications |-> [DefaultNotifications EXCEPT !.notify_on_success = FALSE,
                                                   !.notify_on_error = FALSE]],
   [password_length |-> 3,
    notifications |-> [DefaultNotifications EXCEPT !.enable_notifications = FALSE]]}

Init ==
  /\ histFile \in EngineHistoryFiles
  /\ records = load_history(histFile)
  /\ max_records = DefaultMaxRecords
  /\ hlog = NewLog(<<>>, 0)
  /\ config_password = OldPassword
  /\ cfgFile = ConfigFile(OldPassword)
  /\ \E c \in EngineConfigs :
       /\ password_length = c.password_length
       /\ notify_cfg = c.notifications
  /\ is_running = FALSE
  /\ workers = 0
  /\ loop = NoLoop
  /\ loopState = [l \in Threads |-> "none"]
  /\ job = [t \in Threads |-> IdleJob]
  /\ last = NoneEnded
  /\ triggers = 0
  /\ now = 0
  /\ serverPassword = OldPassword
  /\ ChangerAtRest

JobStep(t) ==
  \/ WrapperCheckLoop(t)
  \/ WrapperNewLoop(t)
  \/ RunJob(t)
  \/ \E o \in {"ok", "refused", "error"} : GetRsaKey(t, o)
  \/ \E o \in {"complete_transfer", "complete_no_transfer", "rejected", "error"} : DoLogin(t, o)
  \/ \E o \in {"sessionid", "no_cookie", "error"} : ExtractSession(t, o)
  \/ \E o \in {"token", "no_token", "not_200", "error"} : GetForm(t, o)
  \/ \E o \in {"success", "response_lost", "rejected", "error"} : SubmitChange(t, o)
  \/ \E o \in WriteOutcomes : WriteHistory(t, o)
  \/ \E o \in WriteOutcomes : SaveConfig(t, o)

Next ==
  \/ Start
  \/ \E joined \in BOOLEAN : Stop(joined)
  \/ WorkerExit
  \/ TimerTick
  \/ force_password_change
  \/ Tick
  \/ \E t \in Threads : JobStep(t)

Spec == Init /\ [][Next]_vars

\* ------------------- the engine started over a history with the breaker open
\* password_history.json of an earlier run that failed three times in a row
BreakerHistoryFile ==
  ListFile([i \in 1..BreakerThreshold |-> to_dict(EarlierFailure(0))])

BreakerInit ==
  /\ histFile = BreakerHistoryFile
  /\ records = load_history(histFile)
  /\ max_records = DefaultMaxRecords
  /\ hlog = NewLog(<<>>, 0)
  /\ config_password = OldPassword
  /\ cfgFile = ConfigFile(OldPassword)
  /\ \E c \in EngineConfigs :
       /\ password_length = c.password_length
       /\ notify_cfg = c.notifications
  /\ is_running = FALSE
  /\ workers = 0
  /\ loop = NoLoop
  /\ loopState = [l \in Threads |-> "none"]
  /\ job = [t \in Threads |-> IdleJob]
  /\ last = NoneEnded
  /\ triggers = 0
  /\ now = 0
  /\ serverPassword = OldPassword
  /\ ChangerAtRest

BreakerSpec == BreakerInit /\ [][Next]_vars

\* ------------- the engine, the record of an attempt built and then added
\* password_changer.change_password returns, line 214: the session of the
\* changer as one step, steam_client.py lines 333-366
ChangeReturns(t, success) ==
  /\ job[t].pc = "rsa"
  /\ success => (job[t].old_password = serverPassword /\ config_password = serverPassword)
  /\ serverPassword' = IF success THEN job[t].new_password ELSE serverPassword
  /\ config_password' = IF success THEN job[t].new_password ELSE config_password
  /\ Set(t, [pc |-> "returned", success |-> success])
  /\ UNCHANGED <<histVars, cfgFile, password_length, notify_cfg, changerVars, schedVars, last,
                 triggers, now>>

\* lines 217-223: the record is built, its timestamp is datetime.now()
CreateRecord(t) ==
  /\ job[t].pc = "returned"
  /\ Set(t, [pc |-> "add_record",
             record |-> <<OutcomeRecord(job[t], now, job[t].success)>>])
  /\ UNCHANGED <<histVars, cfgVars, changerVars, schedVars, last, triggers, now, serverPassword>>

\* line 225: add_record(record) up to the open() of save_history
AddRecord(t) ==
  /\ job[t].pc = "add_record"
  /\ AppendRecord(t, job[t].record[1], [record |-> <<>>])
  /\ UNCHANGED <<histFile, max_records, hlog, cfgVars, changerVars, schedVars, last, triggers, now,
                 serverPassword>>

\* one engine just constructed over an empty store, default configuration
StampInit ==
  /\ Init
  /\ histFile = MissingFile
  /\ password_length = 16
  /\ notify_cfg = DefaultNotifications

StampJobStep(t) ==
  \/ WrapperCheckLoop(t)
  \/ WrapperNewLoop(t)
  \/ RunJob(t)
  \/ \E success \in BOOLEAN : ChangeReturns(t, success)
  \/ CreateRecord(t)
  \/ AddRecord(t)
  \/ \E o \in WriteOutcomes : WriteHistory(t, o)
  \/ \E o \in WriteOutcomes : SaveConfig(t, o)

StampNext ==
  \/ Start
  \/ TimerTick
  \/ force_password_change
  \/ Tick
  \/ \E t \in Threads : StampJobStep(t)

StampSpec == StampInit /\ [][StampNext]_vars

\* ------------------------ the engine started and stopped again and again
\* a worker that join(timeout=5) gave up on, line 351, is still counted
LifeNext ==
  \/ StartUpTo(MaxLiveWorkers)
  \/ \E joined \in BOOLEAN : Stop(joined)
  \/ WorkerExit
  \/ TimerTick
  \/ force_password_change
  \/ Tick
  \/ \E t \in Threads : StampJobStep(t)

LifeSpec == StampInit /\ [][LifeNext]_vars

\* --------------------- the engine against a server that may not answer
\* the positions at which the coroutine waits for a reply of the server
NetworkPcs == {"rsa", "login", "transfer", "form", "submit"}

\* the timeout of the client session: aiohttp.ClientSession() is made without
\* a timeout argument, steam_client.py line 99, and no request names one
\* (lines 141, 186, 208, 236), so the default of the session holds, which is
\* a finite total time per request
SessionTimeout == "default"

\* a request that waits for ever
TimesOut_never(timeout) == FALSE

\* a request without a reply ends by raising a timeout error, unless the
\* session was given no timeout (None)
TimesOut(timeout) == timeout # None

\* the server will not answer the request thread t waits on
ServerSilent(t) ==
  /\ job[t].pc \in NetworkPcs
  /\ ~job[t].silent
  /\ Set(t, [silent |-> TRUE])
  /\ UNCHANGED <<histVars, cfgVars, changerVars, schedVars, last, triggers, now, serverPassword>>

\* the reply to the request arrives
Answered(t) ==
  /\ ~job[t].silent
  /\ \/ \E o \in {"ok", "refused", "error"} : GetRsaKey(t, o)
     \/ \E o \in {"complete_transfer", "complete_no_transfer", "rejected", "error"} :
          DoLogin(t, o)
     \/ \E o \in {"sessionid", "no_cookie", "error"} : ExtractSession(t, o)
     \/ \E o \in {"token", "no_token", "not_200", "error"} : GetForm(t, o)
     \/ \E o \in {"success", "response_lost", "rejected", "error"} : SubmitChange(t, o)

\* the timeout raises in the coroutine: the except branches of the client,
\* steam_client.py lines 163-165, 226-228, 248-250, 293-294
RequestTimeout(t) ==
  /\ job[t].silent
  /\ TimesOut(SessionTimeout)
  /\ \/ GetRsaKey(t, "error")
     \/ DoLogin(t, "error")
     \/ ExtractSession(t, "error")
     \/ GetForm(t, "error")
     \/ \E o \in {"response_lost", "error"} : SubmitChange(t, o)

LiveJobStep(t) ==
  \/ WrapperCheckLoop(t)
  \/ WrapperNewLoop(t)
  \/ RunJob(t)
  \/ Answered(t)
  \/ ServerSilent(t)
  \/ RequestTimeout(t)
  \/ \E o \in WriteOutcomes : WriteHistory(t, o)
  \/ \E o \in WriteOutcomes : SaveConfig(t, o)

LiveNext ==
  \/ force_password_change
  \/ \E t \in Threads : LiveJobStep(t)

\* every job thread is a thread of its own that keeps being scheduled
LiveSpec == StampInit /\ [][LiveNext]_vars /\ \A t \in Threads : WF_vars(LiveJobStep(t))

\* ------------------------------------------- PasswordHistory alone
\* the records a caller hands to add_record
HistRecordInputs ==
  {PasswordChangeRecord(isoformat(0), hash_password(OldPassword), hash_password("pA"),
                        TRUE, None),
   PasswordChangeRecord(isoformat(MaxTime), hash_password("pA"), hash_password("pB"),
                        FALSE, UnknownError),
   PasswordChangeRecord(isoformat(MaxTime), hash_password("pA"), hash_password("pB"),
                        TRUE, None)}

GoodEntry == to_dict(EarlierFailure(0))

\* a record written without its optional error_message
ShortEntry ==
  [timestamp |-> isoformat(0), old_password_hash |-> hash_password(OldPassword),
   new_password_hash |-> hash_password("pA"), success |-> TRUE]

\* entries cls(**data) rejects: a required key missing, an unknown key
BadEntries ==
  {[timestamp |-> isoformat(0), success |-> TRUE],
   [timestamp |-> isoformat(0), old_password_hash |-> hash_password(OldPassword),
    new_password_hash |-> hash_password("pA"), success |-> TRUE,
    error_message |-> None, note |-> "x"]}

\* password_history.json as the object can find it
HistoryFiles ==
  {MissingFile, UnreadableFile, CorruptFile, ListFile(<<>>), ListFile(<<ShortEntry>>),
   ListFile([i \in 1..(MaxRetention + 1) |-> GoodEntry])}
  \cup {ListFile(<<GoodEntry, b>>) : b \in BadEntries}

EngineAtRest ==
  /\ config_password = OldPassword
  /\ cfgFile = ConfigFile(OldPassword)
  /\ password_length = 16
  /\ notify_cfg = DefaultNotifications
  /\ is_running = FALSE
  /\ workers = 0
  /\ loop = NoLoop
  /\ loopState = [l \in Threads |-> "none"]
  /\ job = [t \in Threads |-> IdleJob]
  /\ last = NoneEnded
  /\ triggers = 0
  /\ now = 0
  /\ serverPassword = OldPassword

\* PasswordHistory(history_file, max_records), lines 44-48
Construct(file, n) ==
  /\ max_records' = n
  /\ records' = load_history(file)
  /\ hlog' = NewLog(load_history(file), hlog.adds)

HistInit ==
  /\ ChangerAtRest
  /\ histFile \in HistoryFiles
  /\ max_records \in 0..MaxRetention
  /\ records = load_history(histFile)
  /\ hlog = NewLog(records, 0)
  /\ EngineAtRest

HistFrame ==
  UNCHANGED <<cfgVars, changerVars, schedVars, job, last, triggers, serverPassword>>

\* add_record(record), lines 74-77
HistAddRecord(r, outcome) ==
  /\ hlog.adds < MaxAdds
  /\ LET res == add_record(records, histFile, max_records, r, outcome)
     IN  /\ records' = res.records
         /\ histFile' = res.file
  /\ hlog' = [hlog EXCEPT !.added = Append(@, r), !.op = "add_record", !.outcome = outcome,
                           !.adds = @ + 1,
                           !.window = 0, !.failed = <<>>, !.last_change = None,
                           !.has_saved = IF outcome = "ok" THEN TRUE ELSE @,
                           !.saved = IF outcome = "ok"
                                     THEN add_record(records, histFile, max_records, r, outcome).records
                                     ELSE @]
  /\ UNCHANGED <<max_records, now>>
  /\ HistFrame

\* the process restarts: a new PasswordHistory over the same file
HistConstruct(n) ==
  /\ hlog.op # "init"
  /\ Construct(histFile, n)
  /\ UNCHANGED <<histFile, now>>
  /\ HistFrame

\* the windows get_failed_attempts is called with: the breaker's (line 190)
\* and the default one, which get_status uses (lines 86, 367)
QueryWindows == {BreakerWindowHours, StatusWindowHours}

\* a call of get_failed_attempts(since_hours), lines 86-99
HistGetFailedAttempts(since_hours) ==
  /\ hlog.op # "get_failed_attempts"
  /\ hlog' = [hlog EXCEPT !.op = "get_failed_attempts", !.window = since_hours,
                           !.failed = get_failed_attempts(records, now, since_hours),
                           !.last_change = None]
  /\ UNCHANGED <<records, histFile, max_records, now>>
  /\ HistFrame

\* a call of get_last_change(), lines 79-84
HistGetLastChange ==
  /\ hlog.op # "get_last_change"
  /\ hlog' = [hlog EXCEPT !.op = "get_last_change", !.last_change = get_last_change(records),
                           !.window = 0, !.failed = <<>>]
  /\ UNCHANGED <<records, histFile, max_records, now>>
  /\ HistFrame

\* the wall clock moves on between two calls
HistTick ==
  /\ now < MaxTime
  /\ now' = now + 1
  /\ UNCHANGED histVars
  /\ HistFrame

HistNext ==
  \/ \E r \in HistRecordInputs, o \in WriteOutcomes : HistAddRecord(r, o)
  \/ \E n \in 0..MaxRetention : HistConstruct(n)
  \/ \E h \in QueryWindows : HistGetFailedAttempts(h)
  \/ HistGetLastChange
  \/ HistTick

HistSpec == HistInit /\ [][HistNext]_vars

\* ----------------- the history store written in two steps, and read
\* get_status, lines 364-375; jobs is len(schedule.jobs). A None of
\* last_successful_change is the empty tuple here.
get_status(recs, clock, running, jobs) ==
  [is_running |-> running,
   next_scheduled_change |-> IF jobs > 0 THEN "next_run" ELSE None,
   last_successful_change |->
     IF \E i \in 1..Len(recs) : recs[i].success
     THEN <<get_last_change(recs).timestamp>> ELSE <<>>,
   failed_attempts_today |-> Len(get_failed_attempts(recs, clock, StatusWindowHours)),
   total_password_changes |-> Cardinality({i \in 1..Len(recs) : recs[i].success})]

\* open(path, 'w') succeeded, line 69: the file is empty, and holds no JSON
\* document, until json.dump has written all of it
Truncated(file) == CorruptFile

\* the engine's history over password_history.json as an earlier run left it
StoreInit ==
  /\ ChangerAtRest
  /\ histFile \in {MissingFile, ListFile(<<GoodEntry>>)}
  /\ max_records \in (0..MaxRetention) \cup {DefaultMaxRecords}
  /\ records = load_history(histFile)
  /\ hlog = NewLog(records, 0)
  /\ EngineAtRest

\* add_record(record), line 76, and save_history up to line 69 with the
\* file opened
StoreBeginSave(r) ==
  /\ hlog.writing = <<>>
  /\ hlog.adds < MaxAdds
  /\ LET kept == TrimRecords(Append(records, r), max_records)
     IN  /\ records' = kept
         /\ hlog' = [hlog EXCEPT !.added = Append(@, r), !.op = "open", !.adds = @ + 1,
                                  !.writing = <<[i \in 1..Len(kept) |-> to_dict(kept[i])]>>,
                                  !.status = <<>>, !.seen = <<>>]
  /\ histFile' = Truncated(histFile)
  /\ UNCHANGED <<max_records, now>>
  /\ HistFrame

\* json.dump, line 70, and the file closed; an exception is swallowed
StoreEndSave(outcome) ==
  /\ hlog.writing # <<>>
  /\ histFile' = WriteFile(histFile, ListFile(hlog.writing[1]), outcome)
  /\ hlog' = [hlog EXCEPT !.op = "add_record", !.outcome = outcome, !.writing = <<>>,
                           !.status = <<>>, !.seen = <<>>,
                           !.has_saved = IF outcome = "ok" THEN TRUE ELSE @,
                           !.saved = IF outcome = "ok" THEN records ELSE @]
  /\ UNCHANGED <<records, max_records, now>>
  /\ HistFrame

\* add_record(record) with open() raising: nothing is written
StoreOpenFails(r) ==
  /\ hlog.writing = <<>>
  /\ HistAddRecord(r, "open_error")

\* get_status() of the engine that owns the history
StoreGetStatus ==
  /\ hlog.op # "get_status"
  /\ hlog' = [hlog EXCEPT !.op = "get_status", !.seen = <<>>,
                           !.status = <<get_status(records, now, is_running, 0)>>]
  /\ UNCHANGED <<records, histFile, max_records, now>>
  /\ HistFrame

\* show_status of another process, main.py lines 179-200: a scheduler of its
\* own is constructed, its PasswordHistory loads the file, get_status is called
StoreShowStatus ==
  /\ hlog.op # "show_status"
  /\ hlog' = [hlog EXCEPT !.op = "show_status", !.seen = <<load_history(histFile)>>,
                           !.status = <<get_status(load_history(histFile), now, FALSE, 0)>>]
  /\ UNCHANGED <<records, histFile, max_records, now>>
  /\ HistFrame

\* the wall clock moves on
StoreTick ==
  /\ now < MaxTime
  /\ now' = now + 1
  /\ hlog' = [hlog EXCEPT !.op = "tick", !.status = <<>>, !.seen = <<>>]
  /\ UNCHANGED <<records, histFile, max_records>>
  /\ HistFrame

StoreNext ==
  \/ \E r \in HistRecordInputs : StoreBeginSave(r)
  \/ \E o \in {"ok", "write_error"} : StoreEndSave(o)
  \/ \E r \in HistRecordInputs : StoreOpenFails(r)
  \/ StoreGetStatus
  \/ StoreShowStatus
  \/ StoreTick

StoreSpec == StoreInit /\ [][StoreNext]_vars

\* ------------------------------- SteamAuthenticator, steam_client.py
\* A shared_secret as the configuration holds it: text (or no text at all);
\* junk says that it has characters outside the base64 alphabet, padded that
\* its alphabet characters make a correctly padded base64 text, key is what
\* those characters decode to.
SecretText(junk, padded, key) ==
  [kind |-> "text", junk |-> junk, padded |-> padded, key |-> key]

NoSecret == [kind |-> "none", junk |-> FALSE, padded |-> FALSE, key |-> <<>>]

Raise(e) == [kind |-> "raise", error |-> e]

Return(v) == [kind |-> "return", value |-> v]

\* base64.b64decode(shared_secret), validate=False: characters outside the
\* alphabet are discarded, wrong padding raises binascii.Error, a value
\* that is no text raises TypeError
b64decode(secret) ==
  IF secret.kind = "text" /\ secret.padded THEN Return(secret.key)
  ELSE Raise("Exception")

\* struct.pack(">Q", n): 8 bytes, big-endian; struct.error when n < 0
pack_Q(n) ==
  IF n < 0 THEN Raise("struct.error")
  ELSE Return([i \in 1..8 |-> IF i = 8 THEN n % 256
                             ELSE IF i = 7 THEN (n \div 256) % 256 ELSE 0])

\* a 20-byte digest whose last byte has low nibble off and whose four bytes
\* from position off are b
DigestWith(off, b) ==
  [i \in 1..20 |-> IF i = 20 THEN 80 + off
                   ELSE IF i > off /\ i <= off + 4 THEN b[i - off]
                   ELSE 17]

\* the digests the stand-in for HMAC-SHA1 yields: truncated values 0, 99999,
\* 100000, 2^31 - 1 (all bits set), 42 under a set sign bit, 1000000
Digests ==
  <<DigestWith(0, <<0, 0, 0, 0>>),
    DigestWith(15, <<0, 1, 134, 159>>),
    DigestWith(3, <<0, 1, 134, 160>>),
    DigestWith(10, <<255, 255, 255, 255>>),
    DigestWith(7, <<128, 0, 0, 42>>),
    DigestWith(1, <<0, 15, 66, 64>>)>>

RECURSIVE SumBytes(_)
SumBytes(b) == IF b = <<>> THEN 0 ELSE Head(b) + SumBytes(Tail(b))

\* hmac.new(key, msg, hashlib.sha1).digest(). SHA-1 is not computed: the
\* stand-in is a function of (key, msg) into Digests
hmac_sha1(key, msg) == Digests[((SumBytes(key) + SumBytes(msg)) % Len(Digests)) + 1]

\* lines 55-57: offset = digest[-1] & 0x0F, the 4 bytes at offset read as a
\* big-endian unsigned int, & 0x7FFFFFFF (the top bit of the first byte off)
code_int(digest) ==
  LET offset == digest[20] % 16
  IN  (digest[offset + 1] % 128) * 16777216 + digest[offset + 2] * 65536
      + digest[offset + 3] * 256 + digest[offset + 4]

RECURSIVE Decimal(_)
\* str(n) for n >= 0, as a sequence of digits
Decimal(n) == IF n < 10 THEN <<n>> ELSE Append(Decimal(n \div 10), n % 10)

\* f"{n:05d}": zero-padded on the left to at least 5 digits
Format05d(n) ==
  LET d == Decimal(n)
  IN  IF Len(d) >= 5 THEN d ELSE [i \in 1..(5 - Len(d)) |-> 0] \o d

\* line 42 without the division
time_buffer_unscaled(timestamp) == timestamp

\* line 42: timestamp // 30
time_buffer(timestamp) == timestamp \div 30

\* generate_auth_code(timestamp), lines 38-61
generate_auth_code(secret, timestamp) ==
  LET decoded == b64decode(secret)
      packed == pack_Q(time_buffer(timestamp))
  IN  IF decoded.kind = "raise" THEN Raise("ValueError")
      ELSE IF packed.kind = "raise" THEN packed
      ELSE Return(Format05d(code_int(hmac_sha1(decoded.value, packed.value)) % 1000000))

\* the text tags of confirmations, as bytes
Tags == [conf |-> <<99, 111, 110, 102>>, allow |-> <<97>>]

\* generate_confirmation_key(timestamp, tag), lines 74-85: base64 of the
\* digest of f"{timestamp}{tag}"
generate_confirmation_key(secret, timestamp, tag) ==
  LET decoded == b64decode(secret)
  IN  IF decoded.kind = "raise" THEN Raise("ValueError")
      ELSE Return([kind |-> "b64",
                   of |-> hmac_sha1(decoded.value,
                                    (IF timestamp < 0 THEN <<45>> \o Decimal(0 - timestamp)
                                     ELSE Decimal(timestamp)) \o Tags[tag])])

\* ------------------------- PasswordGenerator, password_generator.py
MaxLength == 5

\* line 54: the least length generate_password accepts
MinLength == 4

\* the character classes, lines 18-21, each by a few of its characters; the
\* ambiguous ones are those of line 24 among them
lowercase == {"a", "l"}
uppercase == {"A", "O"}
numbers == {"2", "0"}
special_chars == {"!"}
ambiguous_chars == {"0", "O", "l"}

\* the arguments of generate_password; exclude_chars as a set, {} for None
\* and for the empty string
GenArgs ==
  [length : (MinLength - 1)..MaxLength, use_lowercase : BOOLEAN, use_uppercase : BOOLEAN,
   use_numbers : BOOLEAN, use_special_chars : BOOLEAN, exclude_ambiguous : BOOLEAN,
   exclude_chars : {{}, lowercase, numbers \cup special_chars}]

\* the defaults of the signature, lines 28-34
DefaultArgs ==
  [length |-> 16, use_lowercase |-> TRUE, use_uppercase |-> TRUE, use_numbers |-> TRUE,
   use_special_chars |-> TRUE, exclude_ambiguous |-> TRUE, exclude_chars |-> {}]

\* PasswordGenerator(), no call made, and the arguments of the call to come
NewGenerator(args) == [op |-> "new", result |-> [kind |-> "none"], args |-> args]

\* lines 61-75, one class: [secrets.choice(chars)] when the class is used
Pick(use, chars) == IF use THEN {<<c>> : c \in chars} ELSE {<<>>}

\* the lists required_chars of line 59 as lines 61-75 can leave them
RequiredChars(a) ==
  {l \o u \o n \o sp :
     l \in Pick(a.use_lowercase, lowercase), u \in Pick(a.use_uppercase, uppercase),
     n \in Pick(a.use_numbers, numbers), sp \in Pick(a.use_special_chars, special_chars)}

\* charset after lines 61-75, as the set of its characters
Charset(a) ==
  (IF a.use_lowercase THEN lowercase ELSE {}) \cup
  (IF a.use_uppercase THEN uppercase ELSE {}) \cup
  (IF a.use_numbers THEN numbers ELSE {}) \cup
  (IF a.use_special_chars THEN special_chars ELSE {})

\* the characters lines 81-88 take out
Excluded(a) == (IF a.exclude_ambiguous THEN ambiguous_chars ELSE {}) \cup a.exclude_chars

\* the required characters kept whatever is excluded
Filter_none(chars, excluded) == chars

\* lines 83 and 88: [c for c in required_chars if c not in excluded]
Filter(chars, excluded) == SelectSeq(chars, LAMBDA c : c \notin excluded)

Swap(s, i, j) == [s EXCEPT ![i] = s[j], ![j] = s[i]]

\* lines 106-108 from position i down (positions counted from 1): every j
\* that secrets.randbelow can give
RECURSIVE Shuffles(_, _)
Shuffles(s, i) ==
  IF i <= 1 THEN {s}
  ELSE UNION {Shuffles(Swap(s, i, j), i - 1) : j \in 1..i}

\* generate_password, lines 54-110: everything the call can return or raise
generate_password(a) ==
  IF a.length < MinLength THEN {Raise("ValueError")}
  ELSE IF Charset(a) = {} THEN {Raise("ValueError")}
  ELSE LET charset == Charset(a) \ Excluded(a)
       IN  IF charset = {} THEN {Raise("ValueError")}
           ELSE UNION
                  {LET required_chars == Filter(r, Excluded(a))
                   IN  IF Len(required_chars) > a.length THEN {Raise("ValueError")}
                       ELSE UNION
                              {{Return(p) : p \in Shuffles(required_chars \o random_chars,
                                                           a.length)} :
                                 random_chars \in
                                   [1..(a.length - Len(required_chars)) -> charset]} :
                     r \in RequiredChars(a)}

\* ------------------- SteamPasswordChanger.change_password on its own
MaxStamp == 61

\* int(time.time()) and the timestamps a caller passes
Stamps == 0..MaxStamp

\* int(time.time()) when change_password runs
SessionStamps == {0, MaxStamp}

ValidSecrets == {SecretText(FALSE, TRUE, <<1, 2>>), SecretText(FALSE, TRUE, <<3>>)}

\* the shared_secret values config.json can hold
Secrets ==
  ValidSecrets \cup
  {SecretText(TRUE, TRUE, <<1, 2>>), SecretText(FALSE, FALSE, <<>>),
   SecretText(TRUE, FALSE, <<>>), NoSecret}

\* SteamAuthenticator(shared_secret), no call made yet
NewAuth(secret) ==
  [secret |-> secret, op |-> "new", timestamp |-> 0, tag |-> "none", result |-> Return(<<>>)]

NoRequests == <<>>

\* no change_password call made yet; login and result hold what login() and
\* change_password() returned: None, "True" or "False"
IdleClient ==
  [pc |-> "idle", session |-> "none", cookie |-> FALSE, session_id |-> None,
   requests |-> NoRequests, replies |-> <<>>, login |-> None, result |-> None]

Request(name, rsatimestamp, password, code) ==
  [name |-> name, rsatimestamp |-> rsatimestamp, password |-> password, code |-> code,
   csrf_token |-> None]

\* change_data of the submission, lines 200-206
SubmitRequest(csrf_token) ==
  [Request("changepasswordsubmit", None, None, <<>>) EXCEPT !.csrf_token = csrf_token]

\* a reply of which the code reads no body
NoBody == [kind |-> "none"]

Reply(status, timestamp) == [status |-> status, timestamp |-> timestamp, body |-> NoBody]

\* a reply with its HTTP status and the body the code reads
BodyReply(status, body) == [status |-> status, timestamp |-> None, body |-> body]

\* the text of the change form page, as the three patterns of
\* _extract_csrf_token see it: for each pattern the group of its first match
\* in the page, None when the pattern matches nowhere
Page(form_field, inline_field, script_object) ==
  [kind |-> "page", form_field |-> form_field, inline_field |-> inline_field,
   script_object |-> script_object]

\* the list patterns of _extract_csrf_token, lines 301-305
Patterns == <<"form_field", "inline_field", "script_object">>

\* the loop returning the match of the last pattern that matches
extract_csrf_token_last(page) ==
  LET matched == {k \in 1..Len(Patterns) : page[Patterns[k]] # None}
  IN  IF matched = {} THEN None
      ELSE page[Patterns[CHOOSE k \in matched : \A j \in matched : j <= k]]

\* _extract_csrf_token, lines 296-312: the patterns are searched in the order
\* of the list and the first match is returned
extract_csrf_token(page) ==
  LET matched == {k \in 1..Len(Patterns) : page[Patterns[k]] # None}
  IN  IF matched = {} THEN None
      ELSE page[Patterns[CHOOSE k \in matched : \A j \in matched : k <= j]]

\* the JSON body of the reply to the submission; success is what
\* result.get('success') gives: "True" for a true value, "False" for a false
\* one, None for a body without the key
Json(success) == [kind |-> "json", success |-> success]

\* any HTTP 200 taken as a change
ChangeAccepted_any_200(reply) == reply.status = "200"

\* lines 213-216: HTTP 200 and a true value under 'success'
ChangeAccepted(reply) == reply.status = "200" /\ reply.body.success = "True"

\* __aexit__ leaving the session as it is
aexit_skipped(session) == session

\* __aexit__, lines 102-104
aexit(session) == IF session = "open" THEN "closed" ELSE session

\* SteamPasswordChanger.change_password returns: the async with block is left
Finish(c, login, result) ==
  [c EXCEPT !.pc = "done", !.session = aexit(c.session), !.login = login, !.result = result]

\* a request goes out and the coroutine waits for the reply
Send(c, pc, request) == [c EXCEPT !.pc = pc, !.requests = Append(@, request)]

Got(c, reply) == [c EXCEPT !.replies = Append(@, reply)]

ChangerFrame ==
  UNCHANGED <<histVars, cfgVars, schedVars, job, last, triggers, now, serverPassword, generator>>

\* a direct call of generate_auth_code(timestamp)
AuthGenerate(t) ==
  /\ client.pc = "idle"
  /\ auth' = [auth EXCEPT !.op = "generate_auth_code", !.timestamp = t, !.tag = "none",
                          !.result = generate_auth_code(auth.secret, t)]
  /\ UNCHANGED client
  /\ ChangerFrame

\* a direct call of generate_confirmation_key(timestamp, tag)
AuthConfirm(t, tag) ==
  /\ client.pc = "idle"
  /\ auth' = [auth EXCEPT !.op = "generate_confirmation_key", !.timestamp = t, !.tag = tag,
                          !.result = generate_confirmation_key(auth.secret, t, tag)]
  /\ UNCHANGED client
  /\ ChangerFrame

\* change_password(new_password), lines 333-343, up to the first request:
\* the session is created, the code generated at the clock's t, login called
ChangerBegin(t) ==
  /\ client.pc \in {"idle", "done"}
  /\ LET code == generate_auth_code(auth.secret, t)
         c == [IdleClient EXCEPT !.session = "open"]
     IN  /\ auth' = [auth EXCEPT !.op = "generate_auth_code", !.timestamp = t, !.tag = "none",
                                 !.result = code]
         /\ client' = IF code.kind = "raise" THEN Finish(c, None, "False")
                      ELSE Send(c, "rsa", Request("getrsakey", None, None, <<>>))
  /\ ChangerFrame

\* the key fetch accepted everything
RsaKeyObtained_any(reply) == TRUE

\* _get_rsa_key returned a key, lines 124 and 240-246
RsaKeyObtained(reply) == reply.status \in {"ok", "ok_bad_key"}

\* _encrypt_password, lines 252-274: "" when the key cannot be used
encrypt_password(reply) == IF reply.status = "ok" THEN "encrypted" ELSE ""

\* the reply to getrsakey, then lines 124-144
RsaReply(reply) ==
  /\ client.pc = "rsa"
  /\ client' =
       IF RsaKeyObtained(reply)
       THEN Send(Got(client, reply), "dologin",
                 Request("dologin", reply.timestamp, encrypt_password(reply),
                         auth.result.value))
       ELSE Finish(Got(client, reply), "False", "False")
  /\ UNCHANGED auth
  /\ ChangerFrame

\* line 147: success and login_complete
LoginComplete(reply) == reply.status \in {"complete_transfer", "complete_no_transfer"}

\* line 178 without the test of session_id
ChangeReady_no_sid(c) == c.session = "open"

\* line 178: a session and a session_id
ChangeReady(c) == c.session = "open" /\ c.session_id # None

\* login returned True: lines 345-353, then client.change_password up to
\* its first request, lines 178-186
AfterLogin(c) ==
  IF ChangeReady(c)
  THEN Send([c EXCEPT !.login = "True"], "form", Request("changepassword", None, None, <<>>))
  ELSE Finish(c, "True", "False")

\* the reply to dologin, lines 145-165; cookie: it sets a sessionid cookie
LoginReply(reply, cookie) ==
  /\ client.pc = "dologin"
  /\ client' =
       LET c == Got(client, reply)
       IN  IF ~LoginComplete(reply) THEN Finish(c, "False", "False")
           ELSE IF reply.status = "complete_transfer"
           THEN Send([c EXCEPT !.cookie = cookie], "transfer",
                     Request("transfer", None, None, <<>>))
           ELSE AfterLogin([c EXCEPT !.cookie = cookie])
  /\ UNCHANGED auth
  /\ ChangerFrame

\* the reply to the transfer url, _extract_session_data, lines 279-294
TransferReply(reply) ==
  /\ client.pc = "transfer"
  /\ client' =
       LET c == Got(client, reply)
           sid == IF reply.status = "error" THEN None
                  ELSE IF reply.status = "cookie" \/ c.cookie THEN "sid" ELSE None
       IN  AfterLogin([c EXCEPT !.session_id = sid])
  /\ UNCHANGED auth
  /\ ChangerFrame

\* the reply to the change form, lines 187-210
FormReply(reply) ==
  /\ client.pc = "form"
  /\ client' =
       LET c == Got(client, reply)
           csrf_token == IF reply.status = "200" THEN extract_csrf_token(reply.body)
                         ELSE None
       IN  IF csrf_token # None THEN Send(c, "submit", SubmitRequest(csrf_token))
           ELSE Finish(c, "True", "False")
  /\ UNCHANGED auth
  /\ ChangerFrame

\* the reply to the submission, lines 213-228, then lines 355-362
SubmitReply(reply) ==
  /\ client.pc = "submit"
  /\ client' = Finish(Got(client, reply), "True",
                       IF ChangeAccepted(reply) THEN "True" ELSE "False")
  /\ UNCHANGED auth
  /\ ChangerFrame

RsaReplies ==
  {Reply("ok", ts) : ts \in {"T1", "T2"}} \cup
  {Reply("ok_bad_key", "T1"), Reply("refused", None), Reply("error", None)}

LoginReplies ==
  {Reply(st, None) : st \in {"complete_transfer", "complete_no_transfer", "rejected", "error"}}

TransferReplies == {Reply(st, None) : st \in {"cookie", "no_cookie", "error"}}

\* the pages: each pattern matches or not, each with a token of its own
Pages ==
  {Page(f, i, o) : f \in {None, "tokA"}, i \in {None, "tokB"}, o \in {None, "tokC"}}

FormReplies ==
  {BodyReply("200", page) : page \in Pages} \cup
  {BodyReply("not_200", Page("tokA", None, None)), Reply("error", None)}

SubmitReplies ==
  {BodyReply(st, Json(success)) :
     st \in {"200", "not_200"}, success \in {"True", "False", None}} \cup
  {Reply("error", None)}

ClientInit ==
  /\ auth \in {NewAuth(secret) : secret \in Secrets}
  /\ client = IdleClient
  /\ generator = NewGenerator(DefaultArgs)
  /\ records = <<>>
  /\ histFile = MissingFile
  /\ max_records = DefaultMaxRecords
  /\ hlog = NewLog(<<>>, 0)
  /\ EngineAtRest

ClientNext ==
  \/ \E t \in Stamps \cup {0 - 1} : AuthGenerate(t)
  \/ \E t \in Stamps, tag \in DOMAIN Tags : AuthConfirm(t, tag)
  \/ \E t \in SessionStamps : ChangerBegin(t)
  \/ \E r \in RsaReplies : RsaReply(r)
  \/ \E r \in LoginReplies, cookie \in BOOLEAN : LoginReply(r, cookie)
  \/ \E r \in TransferReplies : TransferReply(r)
  \/ \E r \in FormReplies : FormReply(r)
  \/ \E r \in SubmitReplies : SubmitReply(r)

ClientSpec == ClientInit /\ [][ClientNext]_vars

\* --------------------------- one call of generate_password
GenInit ==
  /\ auth = NewAuth(SecretText(FALSE, TRUE, <<1, 2>>))
  /\ client = IdleClient
  /\ generator \in {NewGenerator(a) : a \in GenArgs}
  /\ records = <<>>
  /\ histFile = MissingFile
  /\ max_records = DefaultMaxRecords
  /\ hlog = NewLog(<<>>, 0)
  /\ EngineAtRest

\* the call generate_password(**args)
GeneratePassword ==
  /\ generator.op = "new"
  /\ \E result \in generate_password(generator.args) :
       generator' = [generator EXCEPT !.op = "generate_password", !.result = result]
  /\ UNCHANGED <<auth, client>>
  /\ UNCHANGED <<histVars, cfgVars, schedVars, job, last, triggers, now, serverPassword>>

GenNext == GeneratePassword

GenSpec == GenInit /\ [][GenNext]_vars

\* ------------------------------------------------------------ claims
Min(a, b) == IF a < b THEN a ELSE b

\* the last n elements of s (all of s when it has fewer)
LastN(s, n) == SubSeq(s, Len(s) - Min(Len(s), n) + 1, Len(s))

\* the entries of a file that holds a JSON list, none otherwise
Persisted(file) == IF file.kind = "list" THEN file.data ELSE <<>>

AfterAdd == hlog.op = "add_record"

\* C7 (as claimed): after each add_record returns, the in-memory history
\* and the persisted history each hold at most max_records records.
C7_RetentionBound ==
  AfterAdd => /\ Len(records) <= max_records
              /\ Len(Persisted(histFile)) <= max_records

\* C8 (as claimed): after add_record the retained history is exactly the
\* last min(k, N) records of those loaded and appended, in append order.
C8_LastRecordsKept ==
  AfterAdd => records = LastN(hlog.loaded \o hlog.added, max_records)

\* C9 (as claimed): when add_record returns, the persisted store holds the
\* in-memory sequence, the new record included, whatever the file write did.
C9_DurableAlways ==
  AfterAdd => /\ histFile = ListFile([i \in 1..Len(records) |-> to_dict(records[i])])
              /\ Len(records) > 0
              /\ records[Len(records)] = hlog.added[Len(hlog.added)]

\* C9 (amended): when add_record returns and the file write succeeded, the
\* persisted store holds the in-memory sequence, whose last record is the one
\* just added; a failed write is swallowed.
C9_DurableWhenWritten ==
  (AfterAdd /\ hlog.outcome = "ok") =>
     /\ histFile = ListFile([i \in 1..Len(records) |-> to_dict(records[i])])
     /\ load_history(histFile) = records
     /\ Len(records) > 0
     /\ records[Len(records)] = hlog.added[Len(hlog.added)]

C9_Witness ==
  /\ AfterAdd
  /\ hlog.outcome = "ok"
  /\ Len(hlog.loaded \o hlog.added) > max_records
  /\ max_records > 0
  /\ Len(Persisted(histFile)) = max_records

\* the store cannot be read as a list of records
Unloadable(file) ==
  \/ file.kind # "list"
  \/ \E i \in 1..Len(file.data) : Undecodable(file.data[i])

\* C10: a history constructed over a missing, unreadable or corrupt store,
\* or over one holding a record that cannot be decoded, has zero records.
C10_CorruptStoreIsEmpty ==
  (hlog.op = "init" /\ Unloadable(histFile)) => records = <<>>

C10_Witness ==
  /\ hlog.op = "init"
  /\ histFile.kind = "list"
  /\ Len(histFile.data) = 2
  /\ Undecodable(histFile.data[2])
  /\ ~Undecodable(histFile.data[1])
  /\ records = <<>>

LastSuccessIdx(recs) ==
  IF \E i \in 1..Len(recs) : recs[i].success
  THEN CHOOSE i \in 1..Len(recs) :
         recs[i].success /\ \A j \in 1..Len(recs) : recs[j].success => j <= i
  ELSE 0

\* C12: get_last_change returns the retained success record appended last,
\* and returns None exactly when no retained record is a success.
C12_LastSuccess ==
  hlog.op = "get_last_change" =>
    IF LastSuccessIdx(records) = 0
    THEN hlog.last_change = None
    ELSE hlog.last_change = records[LastSuccessIdx(records)]

C12_Witness ==
  /\ hlog.op = "get_last_change"
  /\ Len(records) = 3
  /\ records[1].success /\ records[2].success /\ ~records[3].success
  /\ records[1] # records[2]
  /\ hlog.last_change = records[2]

\* C13 (as claimed): a history constructed over the store after a restart
\* holds exactly the records the previous object held after its last save
\* that was written.
C13_RestartKeepsSaved ==
  [][(hlog.has_saved /\ hlog.op # "init" /\ hlog'.op = "init")
       => records' = hlog.saved]_vars

\* ------------------------------------------------ changer claims
\* the seed is a base64 text
ValidSeed(secret) == secret.kind = "text" /\ ~secret.junk /\ secret.padded

Generated == auth.op = "generate_auth_code"

\* C14: for a valid secret and a timestamp t, generate_auth_code(t) equals
\* generate_auth_code(t - (t mod 30)), and every timestamp of the same
\* 30-second window gives the same code.
C14_WindowDeterminism ==
  (Generated /\ ValidSeed(auth.secret)) =>
    /\ auth.result = generate_auth_code(auth.secret, auth.timestamp - (auth.timestamp % 30))
    /\ \A u \in Stamps :
         (u \div 30 = auth.timestamp \div 30) => generate_auth_code(auth.secret, u) = auth.result

C14_Witness ==
  /\ Generated
  /\ ValidSeed(auth.secret)
  /\ auth.timestamp > 30
  /\ auth.timestamp % 30 = 29
  /\ auth.result.kind = "return"
  /\ auth.result # generate_auth_code(auth.secret, auth.timestamp - 30)

\* C15 (as claimed): the code generate_auth_code returns is exactly 5 decimal
\* digits.
C15_FiveDigits ==
  (Generated /\ auth.result.kind = "return") =>
    /\ Len(auth.result.value) = 5
    /\ \A i \in 1..Len(auth.result.value) : auth.result.value[i] \in 0..9

C17_Teardown ==
  /\ client.pc = "idle" => client.session = "none"
  /\ client.pc = "done" => client.session = "closed"
  /\ client.pc \notin {"idle", "done"} => client.session = "open"

C17_Witness ==
  /\ client.pc = "done"
  /\ client.session = "closed"
  /\ Len(client.replies) = 4
  /\ client.replies[4].status = "error"

\* C18 (as claimed): login is reported as succeeded only with a session
\* identifier recovered.
C18_LoginNeedsSessionId ==
  client.login = "True" => client.session_id # None

RequestNames == [k \in 1..Len(client.requests) |-> client.requests[k].name]

\* C19: a submission is the fifth request of its call, after key fetch, login,
\* transfer and form fetch in this order, the key fetched, the login complete
\* with a session identifier recovered, the form fetched with a token; the
\* login request carries the timestamp of the key reply of the same call.
C19_ProtocolOrder ==
  /\ \A k \in 1..Len(client.requests) :
       client.requests[k].name = "changepasswordsubmit" =>
         /\ RequestNames =
              <<"getrsakey", "dologin", "transfer", "changepassword", "changepasswordsubmit">>
         /\ client.replies[1].status \in {"ok", "ok_bad_key"}
         /\ client.replies[2].status = "complete_transfer"
         /\ client.replies[3].status # "error"
         /\ client.session_id # None
         /\ client.login = "True"
         /\ client.replies[4].status = "200"
         /\ client.requests[k].csrf_token # None
  /\ \A k \in 1..Len(client.requests) :
       client.requests[k].name = "dologin" =>
         /\ k = 2
         /\ client.requests[1].name = "getrsakey"
         /\ client.requests[k].rsatimestamp = client.replies[1].timestamp
         /\ client.requests[k].rsatimestamp # None

C19_Witness ==
  /\ client.pc = "submit"
  /\ Len(client.requests) = 5
  /\ client.requests[2].rsatimestamp = "T2"
  /\ client.replies[3].status = "no_cookie"

\* the reply means that the step of the request failed
StepFailed(name, reply) ==
  CASE name = "getrsakey" -> reply.status \notin {"ok", "ok_bad_key"}
    [] name = "dologin" -> reply.status \notin {"complete_transfer", "complete_no_transfer"}
    [] name = "changepassword" ->
         ~(reply.status = "200" /\ \E k \in 1..Len(Patterns) : reply.body[Patterns[k]] # None)
    [] name = "changepasswordsubmit" ->
         ~(reply.status = "200" /\ reply.body = Json("True"))
    [] OTHER -> FALSE

\* C20: within one call no request is sent twice, and a failed key fetch,
\* login, form fetch or submission is the last request of the call.
C20_NoRetry ==
  /\ \A j, k \in 1..Len(client.requests) :
       client.requests[j].name = client.requests[k].name => j = k
  /\ \A k \in 1..Len(client.replies) :
       StepFailed(client.requests[k].name, client.replies[k]) =>
         (Len(client.requests) = k /\ client.pc = "done" /\ client.result = "False")

C20_Witness ==
  /\ client.pc = "done"
  /\ Len(client.requests) = 2
  /\ client.replies[2].status = "rejected"

\* the token of a page, the strategies tried one after the other
FirstMatch(page) ==
  IF page.form_field # None THEN page.form_field
  ELSE IF page.inline_field # None THEN page.inline_field
  ELSE page.script_object

\* C21: the token sent with the submission is the match of the first of the
\* strategies form field, inline field, script object that matches the form
\* page; when none matches the call fails and no submission is sent.
C21_FirstStrategyWins ==
  (Len(client.replies) >= 4 /\ client.replies[4].status = "200") =>
    LET page == client.replies[4].body
    IN  IF FirstMatch(page) # None
        THEN /\ Len(client.requests) = 5
             /\ client.requests[5].name = "changepasswordsubmit"
             /\ client.requests[5].csrf_token = FirstMatch(page)
        ELSE /\ Len(client.requests) = 4
             /\ client.pc = "done"
             /\ client.result = "False"

C21_Witness ==
  /\ client.pc = "submit"
  /\ client.replies[4] = BodyReply("200", Page(None, "tokB", "tokC"))
  /\ client.requests[5].csrf_token = "tokB"

\* C22: the call reports a change exactly when the reply to the submission
\* is HTTP 200 with a true success indicator; HTTP 200 without it and every
\* other status is a failed change.
C22_ExplicitSuccess ==
  /\ client.result = "True" => Len(client.replies) = 5
  /\ (client.pc = "done" /\ Len(client.replies) = 5) =>
       (client.result = "True" <=> client.replies[5] = BodyReply("200", Json("True")))

C22_Witness ==
  /\ client.pc = "done"
  /\ Len(client.replies) = 5
  /\ client.replies[5] = BodyReply("200", Json(None))
  /\ client.result = "False"

\* C24 (as claimed): what get_status returns is computed from the durably
\* recorded outcomes, the records the store holds, and never from a record
\* that is in memory only because its write failed.
C24_StatusIsDurable ==
  (hlog.op = "get_status" /\ hlog.writing = <<>>) =>
    hlog.status = <<get_status(load_history(histFile), now, is_running, 0)>>

\* C25 (as claimed): a status read of another process, made while the last
\* completed write had succeeded, loads either the records of that write (of
\* the start, when there was none) or those of the write under way: never a
\* partial or an empty history that no write held.
C25_ReadsAreComplete ==
  (hlog.op = "show_status" /\ hlog.outcome = "ok") =>
    hlog.seen[1] \in {IF hlog.has_saved THEN hlog.saved ELSE hlog.loaded, records}

\* ---------------------------------------------------- engine claims
\* C23 (as claimed): the timestamps of the history records never decrease in
\* append order, whatever the interleaving of timer and forced attempts.
C23_Chronological ==
  \A i, j \in 1..Len(records) :
    i <= j => fromisoformat(records[i].timestamp) <= fromisoformat(records[j].timestamp)

\* thread t takes a step
Steps(t) == job'[t] # job[t]

\* thread t ends in this step
Ends(t) == job[t].pc # "idle" /\ job'[t].pc = "idle"

\* failure records stamped inside the hour that ends at clock
RecentFailures(recs, clock) ==
  {i \in 1..Len(recs) :
     /\ ~recs[i].success
     /\ recs[i].timestamp.fmt = "iso"
     /\ recs[i].timestamp.t > clock - UnitsPerHour}

\* C1: a cycle that starts while the history holds 3 or more failure records
\* of the last hour is skipped: the thread ends without a new password, without
\* a request and without touching history, credential or server, whether the
\* timer or force_password_change started it.
C1_BreakerSkips ==
  [][\A t \in Threads :
       (job[t].pc = "run" /\ Steps(t) /\ Cardinality(RecentFailures(records, now)) >= 3)
         => /\ job'[t] = IdleJob
            /\ last'.outcome \in {"skipped", "not_run"}
            /\ CanRun(loop) => (last'.outcome = "skipped" /\ last'.kind = job[t].kind)
            /\ UNCHANGED <<records, histFile, config_password, cfgFile, serverPassword,
                           loopState>>]_vars

C1_Witness ==
  /\ last.outcome = "skipped"
  /\ last.kind = "forced"
  /\ Cardinality(RecentFailures(records, now)) >= 3
  /\ \A t \in Threads : job[t].pc = "idle"

\* C2 (as claimed): at most one rotation attempt is in flight.
C2_OneAttemptInFlight == Cardinality({t \in Threads : InFlight(t)}) <= 1

\* C3 (as claimed): an attempt ends reported as a success only with the new
\* secret written to config.json.
C3_SuccessOnlyIfSaved ==
  [][\A t \in Threads :
       (Ends(t) /\ last'.outcome = "success")
         => PersistedPassword(cfgFile') = job[t].new_password]_vars

\* C4 (as claimed): an attempt whose every step the server accepted ends with
\* the credential, in memory and in config.json, equal to its new password
\* and with exactly one record appended, a success record.
C4_FullSuccess ==
  [][\A t \in Threads :
       (job[t].pc = "save_config" /\ Ends(t))
         => /\ config_password' = job[t].new_password
            /\ PersistedPassword(cfgFile') = job[t].new_password
            /\ Len(job[t].appended) = 1
            /\ job[t].appended[1].success]_vars

ReasonsOf(pc) ==
  CASE pc = "rsa" -> {"Network"}
    [] pc = "login" -> {"Network", "CredentialRejected"}
    [] pc = "transfer" -> {"Network", "CredentialRejected"}
    [] pc = "form" -> {"Network", "FormParseFailed"}
    [] OTHER -> {"Network", "ChangeRejected"}

\* C6 (as claimed): the failure record of an attempt carries the typed reason
\* of the step that failed.
C6_TypedReason ==
  [][\A t \in Threads :
       (job[t].pc \in {"rsa", "login", "transfer", "form", "submit"}
          /\ job'[t].pc = "write_history" /\ ~job'[t].success)
         => job'[t].appended[1].error_message \in ReasonsOf(job[t].pc)]_vars

\* C26: an attempt that ends as failed, by a returned False or an exception,
\* leaves the scheduler as it was: is_running and the worker are untouched,
\* the thread is gone and the event loop it ran on is idle again, so that
\* the next cycle the timer fires can run.
C26_LoopSurvives ==
  [][\A t \in Threads :
       (Ends(t) /\ last'.outcome = "failed") =>
          /\ is_running' = is_running
          /\ workers' = workers
          /\ loop' = loop
          /\ loopState'[job[t].loop] = "idle"
          /\ job'[t] = IdleJob]_vars

C26_Witness ==
  /\ last.outcome = "failed"
  /\ is_running
  /\ workers > 0
  /\ loop = 1
  /\ loopState[1] = "idle"
  /\ job[1].pc = "wrapper"
  /\ job[1].kind = "timer"
  /\ job[2].pc = "idle"
  /\ triggers = 2

\* C27: whatever the write of the history store did, a successful rotation
\* goes on: the record stays in memory, the new secret is set and save_config
\* is called next, and the attempt then ends as a success with the credential
\* store written unless its own write failed.
C27_HistoryWriteDegraded ==
  [][\A t \in Threads :
       /\ (job[t].pc = "write_history" /\ Steps(t) /\ job[t].success) =>
            /\ job'[t].pc = "save_config"
            /\ config_password' = job[t].new_password
            /\ records' = records
       /\ (job[t].pc = "save_config" /\ Steps(t)) =>
            /\ Ends(t)
            /\ last'.outcome = "success"
            /\ cfgFile' \in {ConfigFile(config_password), cfgFile, CorruptFile}]_vars

C27_Witness ==
  /\ last.outcome = "success"
  /\ histFile = MissingFile
  /\ Len(records) = 1
  /\ records[1].success
  /\ config_password \in NewPasswords
  /\ cfgFile = ConfigFile(config_password)
  /\ \A t \in Threads : job[t].pc = "idle"

RawSecrets == {OldPassword} \cup NewPasswords

\* h is the fingerprint of a credential
IsFingerprint(h) == h.kind = "sha256" /\ h.of \in RawSecrets

\* C28 (as claimed): every history record stores the fingerprints of the old
\* and of the new credential, and no field of a record is a raw secret.
C28_FingerprintsOnly ==
  \A i \in 1..Len(records) :
    /\ IsFingerprint(records[i].old_password_hash)
    /\ IsFingerprint(records[i].new_password_hash)
    /\ records[i].error_message \notin RawSecrets

\* C29 (as claimed): stop() completes, also with an attempt in flight: its
\* loop.close() does not raise.
C29_StopCompletes ==
  [][(is_running /\ ~is_running') => ~CloseRaises(loopState, loop)]_vars

C31_SkipIsVisible ==
  [][\A t \in Threads :
       (Ends(t) /\ last'.outcome = "skipped") =>
          (records' # records \/ histFile' # histFile \/ last'.notified # "none")]_vars

\* C32 (as claimed): every login request carries the password encrypted with
\* the key of the same call; when the encryption fails no login request is
\* sent and the call fails.
C32_EncryptionFailureAborts ==
  /\ \A k \in 1..Len(client.requests) :
       client.requests[k].name = "dologin" => client.requests[k].password = "encrypted"
  /\ (Len(client.replies) >= 1 /\ encrypt_password(client.replies[1]) = "") =>
       (Len(client.requests) = 1 /\ client.pc = "done" /\ client.result = "False")

\* C37 (as claimed): every trigger ends in a breaker skip or in an executed
\* attempt; with no other attempt in flight, and so also after stop() and
\* start(), no triggered thread ends without its coroutine having run.
C37_TriggersStayEffective ==
  [][\A t \in Threads :
       (job[t].pc = "run" /\ Steps(t) /\ \A u \in Threads \ {t} : ~InFlight(u))
         => ~(Ends(t) /\ last'.outcome = "not_run")]_vars

\* the success records of recs, in history order
RECURSIVE Successes(_)
Successes(recs) ==
  IF recs = <<>> THEN <<>>
  ELSE IF Head(recs).success THEN <<Head(recs)>> \o Successes(Tail(recs))
       ELSE Successes(Tail(recs))

\* C39 (as claimed): of two consecutive success records of the history the
\* later one's old fingerprint is the earlier one's new fingerprint.
C39_FingerprintChain ==
  LET ok == Successes(records)
  IN  \A i \in 1..(Len(ok) - 1) : ok[i + 1].old_password_hash = ok[i].new_password_hash

\* the characters of the password p
CharsOf(p) == {p[i] : i \in 1..Len(p)}

PasswordGenerated == generator.op = "generate_password"

\* C33 (as claimed): a returned password holds at least one character of
\* each enabled class and, with exclude_ambiguous, no ambiguous character.
C33_ClassesHonoured ==
  (PasswordGenerated /\ generator.result.kind = "return") =>
    LET p == CharsOf(generator.result.value)
        a == generator.args
    IN  /\ a.use_lowercase => p \cap lowercase # {}
        /\ a.use_uppercase => p \cap uppercase # {}
        /\ a.use_numbers => p \cap numbers # {}
        /\ a.use_special_chars => p \cap special_chars # {}
        /\ a.exclude_ambiguous => p \cap ambiguous_chars = {}

\* the result is a password of the length asked for, of allowed characters
IsPasswordFor(result, a) ==
  /\ result.kind = "return"
  /\ Len(result.value) = a.length
  /\ CharsOf(result.value) \subseteq Charset(a) \ Excluded(a)

\* C34 (as claimed): with a length of 4 or more and a class enabled the call
\* returns a password of that length of enabled, not excluded characters;
\* otherwise it raises.
C34_LengthAndCharset ==
  PasswordGenerated =>
    IF generator.args.length >= 4 /\ Charset(generator.args) # {}
    THEN IsPasswordFor(generator.result, generator.args)
    ELSE generator.result = Raise("ValueError")

\* C34 (amended): with a length of 4 or more and an enabled character left
\* after the exclusions the call returns a password of that length of
\* enabled, not excluded characters; otherwise it raises.
C34_LengthAndCharsetLeft ==
  PasswordGenerated =>
    IF generator.args.length >= 4 /\ Charset(generator.args) \ Excluded(generator.args) # {}
    THEN IsPasswordFor(generator.result, generator.args)
    ELSE generator.result = Raise("ValueError")

C34_Witness ==
  /\ PasswordGenerated
  /\ generator.args.length = MaxLength
  /\ generator.args.exclude_ambiguous
  /\ generator.args.exclude_chars = lowercase
  /\ generator.args.use_lowercase /\ generator.args.use_uppercase
  /\ ~generator.args.use_numbers /\ ~generator.args.use_special_chars
  /\ generator.result = Return([i \in 1..MaxLength |-> "A"])

\* C35: a cycle the breaker skips appends no record and leaves the history
\* file alone, and a cycle whose job is entered while fewer than 3 failure
\* records lie inside the trailing hour is not skipped: it goes on to a real
\* attempt (a new password and the first request, or the record of the
\* attempt that failed before it), whether the timer or force_password_change
\* started it. So a breaker opened by old failures closes once they leave the
\* window.
C35_BreakerRecovers ==
  [][\A t \in Threads :
       (job[t].pc = "run" /\ Steps(t) /\ CanRun(loop))
         => /\ (Ends(t) /\ last'.outcome = "skipped") => UNCHANGED <<records, histFile>>
            /\ Cardinality(RecentFailures(records, now)) < BreakerThreshold
                 => /\ job'[t].pc \in {"rsa", "write_history"}
                    /\ loopState'[loop] = "running"
                    /\ last' = last]_vars

\* a cycle was skipped at time 0 over three failures, the clock moved on, and
\* the next cycle is at its first request with no record added in between
C35_Witness ==
  /\ last.outcome = "skipped"
  /\ now > 0
  /\ records = load_history(BreakerHistoryFile)
  /\ \E t \in Threads : job[t].pc = "rsa"

\* the last three records add_record was given are failures stamped inside
\* the hour that ends at clock: three failed attempts in a row
ThreeFailuresInARow(added, clock) ==
  /\ Len(added) >= BreakerThreshold
  /\ \A i \in (Len(added) - BreakerThreshold + 1)..Len(added) :
       /\ ~added[i].success
       /\ IsIso(added[i].timestamp)
       /\ fromisoformat(added[i].timestamp) > clock - BreakerWindowHours * UnitsPerHour
       /\ fromisoformat(added[i].timestamp) <= clock

\* C36 (as claimed): for every retention count N >= 1, once three failed
\* attempts in a row within one hour were added to the history, the test of
\* the breaker (3 or more failures of the last hour among the retained
\* records) is true for the next trigger: eviction hides none of them.
C36_EvictionKeepsFailures ==
  (max_records >= 1 /\ ThreeFailuresInARow(hlog.added, now)) => BreakerOpen(records, now)

\* C38 (as claimed): whatever start() and stop() calls were made, at most one
\* scheduler worker thread is alive, and exactly one while the engine is
\* running; a start() right after a stop() does not leave two workers.
C38_SingleWorker ==
  /\ workers <= 1
  /\ is_running => workers = 1

\* the failure records stamped inside the 24 hours that end at clock
FailuresOfTheDay(recs, clock) ==
  {i \in 1..Len(recs) :
     /\ ~recs[i].success
     /\ recs[i].timestamp.fmt = "iso"
     /\ recs[i].timestamp.t > clock - StatusWindowHours * UnitsPerHour
     /\ recs[i].timestamp.t <= clock}

\* the total of get_status is the number of success records the history
\* holds now
C40_TotalIsRetained ==
  hlog.op = "get_status" =>
    hlog.status[1].total_password_changes =
      Cardinality({i \in 1..Len(records) : records[i].success})

\* the total of get_status never exceeds the retention count
C40_TotalBounded ==
  hlog.op = "get_status" => hlog.status[1].total_password_changes <= max_records

\* the failure count of get_status is that of the trailing 24 hours
C40_FailuresOfTheDay ==
  hlog.op = "get_status" =>
    hlog.status[1].failed_attempts_today = Cardinality(FailuresOfTheDay(records, now))

\* C40 (as claimed): the total of successes get_status returns is the number
\* of success records the history retains, so it never exceeds the retention
\* count N, and its failure count is the number of failures of the trailing
\* 24 hours.
C40_StatusCounters ==
  /\ C40_TotalIsRetained
  /\ C40_TotalBounded
  /\ C40_FailuresOfTheDay
====
